---- MODULE Spec2Model ----
(***************************************************************************)
(* Model of server.js: the HTTP backend of the company-registration flow.  *)
(* Strings that the code inspects character by character (company names,   *)
(* registry titles, SIC queries) are sequences of one-character strings;   *)
(* opaque strings (event types, field values, log tags) are TLA+ strings.  *)
(***************************************************************************)
EXTENDS Integers, Sequences, FiniteSets, TLC

VARIABLES cn, sicCodes, sic, hook, registrations, clock, subs, outbox

vars == <<cn, sicCodes, sic, hook, registrations, clock, subs, outbox>>

(* ------------------------------ bounds --------------------------------- *)
MaxNameLen == 3
MaxItems == 2

(* --------------------------- string helpers ---------------------------- *)
\* characters the modelled inputs are written with
NameChars == {"a", " "}

\* all sequences over S of length at most n
SeqsUpTo(S, n) == UNION {[1..k -> S] : k \in 0..n}

\* /\s/ : the whitespace class of the regular expressions at lines 44 and 47
IsSpace(c) == c = " "

\* String.prototype.toUpperCase, one character
UpperChar(c) == IF c = "a" THEN "A" ELSE c

\* String.prototype.toUpperCase
ToUpperCase(s) == [i \in 1..Len(s) |-> UpperChar(s[i])]

\* String.prototype.trim: drop leading whitespace
RECURSIVE TrimStart(_)
TrimStart(s) ==
  IF s = <<>> THEN <<>>
  ELSE IF IsSpace(Head(s)) THEN TrimStart(Tail(s)) ELSE s

\* String.prototype.trim: drop trailing whitespace
RECURSIVE TrimEnd(_)
TrimEnd(s) ==
  IF s = <<>> THEN <<>>
  ELSE IF IsSpace(s[Len(s)]) THEN TrimEnd(SubSeq(s, 1, Len(s) - 1)) ELSE s

\* String.prototype.trim
Trim(s) == TrimEnd(TrimStart(s))

\* s.replace(/\s+/g, ' ') : every maximal run of whitespace becomes one space
RECURSIVE CollapseWhitespace(_)
CollapseWhitespace(s) ==
  IF s = <<>> THEN <<>>
  ELSE IF IsSpace(Head(s))
       THEN <<" ">> \o CollapseWhitespace(TrimStart(s))
       ELSE <<Head(s)>> \o CollapseWhitespace(Tail(s))

(* ------------------------------ /check-name ---------------------------- *)
SuffixLimited == <<" ", "L", "I", "M", "I", "T", "E", "D">>
SuffixLtd == <<" ", "L", "T", "D">>

\* line 44: const normalizedSearchName = companyName.trim().toUpperCase().replace(/\s+/g, ' ')
NormalizeSearchName(companyName) ==
  CollapseWhitespace(ToUpperCase(Trim(companyName)))

\* line 47: const companyTitle = company.title.toUpperCase().replace(/\s+/g, ' ')
NormalizeTitle(title) == CollapseWhitespace(ToUpperCase(title))

\* lines 48-50: the predicate handed to items.find
IsExactMatch(title, normalizedSearchName) ==
  LET companyTitle == NormalizeTitle(title)
  IN  \/ companyTitle = normalizedSearchName
      \/ companyTitle = normalizedSearchName \o SuffixLimited
      \/ companyTitle = normalizedSearchName \o SuffixLtd

\* lines 46-51: response.data.items.find(...) is truthy
HasExactMatch(items, companyName) ==
  \E i \in 1..Len(items) : IsExactMatch(items[i], NormalizeSearchName(companyName))

\* mutant: the suggestions built from the trimmed name
Suggestions_Trimmed(companyName) ==
  << Trim(companyName) \o <<" ", "U", "K">>,
     Trim(companyName) \o <<" ", "S", "o", "l", "u", "t", "i", "o", "n", "s">>,
     Trim(companyName) \o <<" ", "G", "r", "o", "u", "p">>,
     Trim(companyName) \o <<" ", "H", "o", "l", "d", "i", "n", "g", "s">>,
     Trim(companyName) \o <<" ", "S", "e", "r", "v", "i", "c", "e", "s">> >>

\* lines 54-60: the rename suggestions, built from the name as received
Suggestions(companyName) ==
  << companyName \o <<" ", "U", "K">>,
     companyName \o <<" ", "S", "o", "l", "u", "t", "i", "o", "n", "s">>,
     companyName \o <<" ", "G", "r", "o", "u", "p">>,
     companyName \o <<" ", "H", "o", "l", "d", "i", "n", "g", "s">>,
     companyName \o <<" ", "S", "e", "r", "v", "i", "c", "e", "s">> >>

\* request bodies: companyName present (possibly empty) or absent
Names == SeqsUpTo(NameChars, MaxNameLen)
NameRequests ==
  {[present |-> TRUE, companyName |-> n] : n \in Names}
    \cup {[present |-> FALSE, companyName |-> <<>>]}

\* titles the registry may return: a stem, bare or with an entity suffix
TitleStems ==
  {<<>>, <<"a">>, <<" ">>, <<"a", "a">>, <<"a", " ">>, <<" ", "a">>, <<" ", " ">>}
Titles == {b \o s : b \in TitleStems, s \in {<<>>, SuffixLimited, SuffixLtd}}
\* mutant: only an absent name is refused
IsFalsyName_AbsentOnly(req) == ~req.present

\* line 30: !companyName
IsFalsyName(req) == ~req.present \/ req.companyName = <<>>

CnIdle ==
  [pc |-> "idle", req |-> [present |-> FALSE, companyName |-> <<>>],
   called |-> FALSE, items |-> <<>>, status |-> 0, available |-> FALSE,
   suggestions |-> <<>>, error |-> "", logged |-> <<>>]

\* lines 27-42: validate the body, then issue the registry search
CheckNameRequest(req) ==
  /\ cn.pc = "idle"
  /\ cn' = IF IsFalsyName(req)
           THEN [CnIdle EXCEPT !.pc = "done", !.req = req, !.status = 400,
                               !.error = "Company name is required"]
           ELSE [CnIdle EXCEPT !.pc = "awaiting", !.req = req, !.called = TRUE]
  /\ UNCHANGED <<sicCodes, sic, hook, registrations, clock, subs, outbox>>

\* the registry puts one more candidate into the answer it is composing
RegistryCandidate(title) ==
  /\ cn.pc = "awaiting"
  /\ Len(cn.items) < MaxItems
  /\ cn' = [cn EXCEPT !.items = Append(@, title)]
  /\ UNCHANGED <<sicCodes, sic, hook, registrations, clock, subs, outbox>>

\* lines 44-64: the registry answered with the list of candidates
RegistryReply ==
  /\ cn.pc = "awaiting"
  /\ cn' = IF HasExactMatch(cn.items, cn.req.companyName)
           THEN [cn EXCEPT !.pc = "done", !.status = 200, !.available = FALSE,
                           !.suggestions = Suggestions(cn.req.companyName)]
           ELSE [cn EXCEPT !.pc = "done", !.status = 200, !.available = TRUE,
                           !.suggestions = <<>>]
  /\ UNCHANGED <<sicCodes, sic, hook, registrations, clock, subs, outbox>>

\* lines 65-68: the registry call failed
RegistryError ==
  /\ cn.pc = "awaiting"
  /\ cn' = [cn EXCEPT !.pc = "done", !.items = <<>>, !.status = 500,
                      !.error = "Could not check company name.",
                      !.logged = <<"Error checking company name:">>]
  /\ UNCHANGED <<sicCodes, sic, hook, registrations, clock, subs, outbox>>

NextName ==
  \/ \E req \in NameRequests : CheckNameRequest(req)
  \/ \E title \in Titles : RegistryCandidate(title)
  \/ RegistryReply
  \/ RegistryError

(* ------------------------- /api/sic-codes/search ----------------------- *)
MaxQueryLen == 3
CatalogLen == 17

\* line 172: .slice(0, 15)
SliceLimit == 15

\* line 163: query.length < 2
MinQueryLen == 2

QueryChars == {"a", "A", "1", " "}

\* String.prototype.toLowerCase, one character
LowerChar(c) == IF c = "A" THEN "a" ELSE c

\* String.prototype.toLowerCase
ToLowerCase(s) == [i \in 1..Len(s) |-> LowerChar(s[i])]

\* String.prototype.includes
Includes(hay, needle) ==
  \E k \in 0..(Len(hay) - Len(needle)) :
    SubSeq(hay, k + 1, k + Len(needle)) = needle

\* Array.prototype.slice(0, n)
Slice0(s, n) == SubSeq(s, 1, IF Len(s) < n THEN Len(s) ELSE n)

\* line 161: const query = req.query.q?.toLowerCase() || ''
SicQuery(req) == IF req.present THEN ToLowerCase(req.q) ELSE <<>>

\* mutant: the description is compared without case folding
SicMatches_CaseSensitive(entry, query) ==
  \/ Includes(entry.code, query)
  \/ Includes(entry.description, query)

\* lines 169-170: the filter predicate
SicMatches(entry, query) ==
  \/ Includes(entry.code, query)
  \/ Includes(ToLowerCase(entry.description), query)

\* lines 167-171: sicCodes.filter(...), in catalog order
RECURSIVE SicFilter(_, _)
SicFilter(catalog, query) ==
  IF catalog = <<>> THEN <<>>
  ELSE IF SicMatches(Head(catalog), query)
       THEN <<Head(catalog)>> \o SicFilter(Tail(catalog), query)
       ELSE SicFilter(Tail(catalog), query)

\* lines 161-174: the response body of the search
SicResults(catalog, req) ==
  LET query == SicQuery(req)
  IN  IF query = <<>> \/ Len(query) < MinQueryLen
      THEN <<>>
      ELSE Slice0(SicFilter(catalog, query), SliceLimit)

\* line 158: sic-codes.json, loaded once at start; the catalogs tried here
EntryPool ==
  << [code |-> <<"1", "1">>, description |-> <<"A", "a">>],
     [code |-> <<"1", "2">>, description |-> <<"a", " ", "a">>],
     [code |-> <<"2", "1">>, description |-> <<"A", " ", "1">>],
     [code |-> <<"2", "2">>, description |-> <<" ", "a", "A">>] >>
Catalogs ==
  {[i \in 1..CatalogLen |-> EntryPool[((i * k) % 4) + 1]] : k \in {1, 2, 4}}
    \cup {<<>>, SubSeq(EntryPool, 1, 3)}

SicRequests ==
  {[present |-> TRUE, q |-> q] : q \in SeqsUpTo(QueryChars, MaxQueryLen)}
    \cup {[present |-> FALSE, q |-> <<>>]}

SicIdle == [pc |-> "idle", req |-> [present |-> FALSE, q |-> <<>>],
            status |-> 0, results |-> <<>>]

\* lines 160-175: GET /api/sic-codes/search
SicSearch(req) ==
  /\ sic' = [pc |-> "done", req |-> req, status |-> 200,
             results |-> SicResults(sicCodes, req)]
  /\ UNCHANGED <<cn, sicCodes, hook, registrations, clock, subs, outbox>>

NextSic == \E req \in SicRequests : SicSearch(req)

(* ---------------------------- /stripe-webhook -------------------------- *)
\* inbound webhook requests: content type, whether the body is well-formed
\* JSON, whether the stripe-signature header is valid for the raw body, and
\* the type and amount carried by the event in the body
HookRequests ==
  [contentType : {"application/json", "text/plain"},
   parseable : BOOLEAN,
   sig : {"valid", "invalid", "absent"},
   type : {"payment_intent.succeeded", "payment_intent.payment_failed",
           "charge.refunded"},
   amount : {11400, 50}]

HookIdle ==
  [pc |-> "idle",
   req |-> [contentType |-> "text/plain", parseable |-> FALSE, sig |-> "absent",
            type |-> "charge.refunded", amount |-> 50],
   body |-> "unread", parsed |-> FALSE, verified |-> FALSE,
   status |-> 0, resBody |-> "", logged |-> <<>>]

\* a request arrives and enters the middleware chain (registration order)
HookReceive(req) ==
  /\ hook.pc \in {"idle", "done"}
  /\ hook' = [HookIdle EXCEPT !.pc = "json", !.req = req]
  /\ UNCHANGED <<cn, sicCodes, sic, registrations, clock, subs, outbox>>

\* line 20: app.use(express.json()) runs first for every route.  A JSON body
\* is read and replaced by the parsed object; a malformed one ends the request
\* in the framework's error handler (400), which prints the error unless the
\* environment is "test"; any other content type leaves an empty body object.
ExpressJson(envPrints) ==
  /\ hook.pc = "json"
  /\ hook' =
       IF hook.req.contentType = "application/json"
       THEN IF hook.req.parseable
            THEN [hook EXCEPT !.pc = "raw_use", !.body = "parsed", !.parsed = TRUE]
            ELSE [hook EXCEPT !.pc = "done", !.status = 400,
                              !.resBody = "Bad Request",
                              !.logged = IF envPrints
                                         THEN <<[tag |-> "SyntaxError", pounds |-> 0, pence |-> 0]>>
                                         ELSE <<>>]
       ELSE [hook EXCEPT !.pc = "raw_use", !.body = "empty"]
  /\ UNCHANGED <<cn, sicCodes, sic, registrations, clock, subs, outbox>>

\* express.raw({type: 'application/json'}): skips a request whose body was
\* already read by an earlier parser, or whose content type does not match
RawBody(h) ==
  IF ~h.parsed /\ h.req.contentType = "application/json" THEN "raw" ELSE h.body

\* line 21: app.use('/stripe-webhook', express.raw(...))
ExpressRawUse ==
  /\ hook.pc = "raw_use"
  /\ hook' = [hook EXCEPT !.pc = "raw_route", !.body = RawBody(hook),
                          !.parsed = (hook.parsed \/ RawBody(hook) = "raw")]
  /\ UNCHANGED <<cn, sicCodes, sic, registrations, clock, subs, outbox>>

\* line 201: the route's own express.raw(...)
ExpressRawRoute ==
  /\ hook.pc = "raw_route"
  /\ hook' = [hook EXCEPT !.pc = "handler", !.body = RawBody(hook),
                          !.parsed = (hook.parsed \/ RawBody(hook) = "raw")]
  /\ UNCHANGED <<cn, sicCodes, sic, registrations, clock, subs, outbox>>

\* line 206: stripe.webhooks.constructEvent(req.body, sig, secret) returns the
\* event only for a raw payload whose signature matches; it throws otherwise
ConstructEventOk(body, sig) == body = "raw" /\ sig = "valid"

\* lines 212-215: what the handler prints for a verified event
HookConfirmation(req) ==
  IF req.type = "payment_intent.succeeded"
  THEN <<[tag |-> "Payment succeeded", pounds |-> req.amount \div 100,
          pence |-> req.amount % 100]>>
  ELSE <<>>

\* mutant: the catch block does not return, the unverified payload is handled
StripeWebhook_NoReturn ==
  /\ hook.pc = "handler"
  /\ hook' = [hook EXCEPT !.pc = "done", !.status = 200, !.resBody = "received",
                          !.logged = HookConfirmation(hook.req)]
  /\ UNCHANGED <<cn, sicCodes, sic, registrations, clock, subs, outbox>>

\* lines 201-218: the webhook handler
StripeWebhook ==
  /\ hook.pc = "handler"
  /\ hook' =
       IF ConstructEventOk(hook.body, hook.req.sig)
       THEN [hook EXCEPT !.pc = "done", !.verified = TRUE, !.status = 200,
                         !.resBody = "received",
                         !.logged = HookConfirmation(hook.req)]
       ELSE [hook EXCEPT !.pc = "done", !.status = 400,
                         !.resBody = "Webhook Error",
                         !.logged = <<[tag |-> "Webhook signature verification failed:",
                                       pounds |-> 0, pence |-> 0]>>]
  /\ UNCHANGED <<cn, sicCodes, sic, registrations, clock, subs, outbox>>

NextHook ==
  \/ \E req \in HookRequests : HookReceive(req)
  \/ \E envPrints \in BOOLEAN : ExpressJson(envPrints)
  \/ ExpressRawUse
  \/ ExpressRawRoute
  \/ StripeWebhook

(* -------------------------- /submit-registration ----------------------- *)
MaxSubs == 2
ClockStart == 999
MaxTicks == 2

SubIds == 1..MaxSubs

\* JSON values of the payloads: a string, or a string in ISO-8601 form
Str(x) == [str |-> x, sec |-> 0, ms |-> 0]

\* lines 128, 184: new Date().toISOString() of a clock reading in milliseconds
ToISOString(t) == [str |-> "ISO-8601", sec |-> t \div 1000, ms |-> t % 1000]

Field(k, v) == [k |-> k, v |-> v]

\* request bodies: objects as ordered lists of fields with distinct names
Payloads ==
  { <<Field("companyName", Str("Acme"))>>,
    <<Field("companyName", Str("Acme")), Field("timestamp", Str("yesterday"))>>,
    <<Field("timestamp", ToISOString(ClockStart)), Field("companyName", Str("Beta")),
      Field("payment_id", Str("pi_1"))>>,
    <<Field("sic_codes", Str("")), Field("payment_id", Str("pi_2"))>>,
    <<>> }

HasField(obj, k) == \E i \in 1..Len(obj) : obj[i].k = k
GetField(obj, k) == obj[CHOOSE i \in 1..Len(obj) : obj[i].k = k].v

\* mutant: { timestamp: <value>, ...data } : a submitted timestamp wins
SpreadWithTimestamp_DataWins(data, value) ==
  IF HasField(data, "timestamp")
  THEN data
  ELSE <<Field("timestamp", value)>> \o data

\* line 182-185: { ...data, timestamp: <value> } : a field already present
\* keeps its place and takes the new value, otherwise the field is added last
SpreadWithTimestamp(data, value) ==
  IF HasField(data, "timestamp")
  THEN [i \in 1..Len(data) |->
          IF data[i].k = "timestamp" THEN Field("timestamp", value) ELSE data[i]]
  ELSE Append(data, Field("timestamp", value))

\* line 187: JSON.stringify(registration) + '\n' : the fields in object order
JsonStringify(obj) == [i \in 1..Len(obj) |-> <<obj[i].k, obj[i].v>>]

\* template literal ${data.k}
Render(data, k) == IF HasField(data, k) THEN GetField(data, k).str ELSE "undefined"

\* template literal ${data.k || dflt}
RenderOr(data, k, dflt) ==
  IF HasField(data, k) /\ GetField(data, k).str # "" THEN GetField(data, k).str ELSE dflt

\* lines 91-142: the message sendSubmissionEmail hands to the email API
SubmissionEmail(data, now) ==
  [subject |-> <<"New Company Registration: ", Render(data, "companyName")>>,
   companyName |-> Render(data, "companyName"),
   companyType |-> RenderOr(data, "companyType", "Private company limited by shares"),
   sic_codes |-> RenderOr(data, "sic_codes", "N/A"),
   payment_id |-> RenderOr(data, "payment_id", "N/A"),
   submittedAt |-> ToISOString(now)]

SubIdle ==
  [pc |-> "idle", data |-> <<>>, ts |-> ToISOString(0), idx |-> 0, line |-> <<>>,
   appendFailed |-> FALSE, emailFailed |-> FALSE, status |-> 0, resBody |-> "",
   logged |-> <<>>]

\* mutant: the email is sent before the record is written
SubmitRegistration_DispatchFirst(i, data, fsOk) ==
  /\ subs[i].pc = "idle"
  /\ LET ts == ToISOString(clock)
         line == JsonStringify(SpreadWithTimestamp(data, ts))
     IN  /\ outbox' = Append(outbox, [id |-> i, msg |-> SubmissionEmail(data, clock)])
         /\ IF fsOk
            THEN /\ registrations' = Append(registrations, line)
                 /\ subs' = [subs EXCEPT ![i] =
                              [SubIdle EXCEPT !.pc = "awaiting_email", !.data = data,
                                              !.ts = ts, !.line = line,
                                              !.idx = Len(registrations) + 1,
                                              !.logged = <<"Registration saved to file">>]]
            ELSE /\ subs' = [subs EXCEPT ![i] =
                              [SubIdle EXCEPT !.pc = "done", !.data = data, !.ts = ts,
                                              !.appendFailed = TRUE, !.status = 500,
                                              !.resBody = "Could not submit registration",
                                              !.logged = <<"Error submitting registration:">>]]
                 /\ UNCHANGED registrations
  /\ UNCHANGED <<cn, sicCodes, sic, hook, clock>>

\* mutant: fs.writeFileSync in place of fs.appendFileSync
SubmitRegistration_Overwrite(i, data, fsOk) ==
  /\ subs[i].pc = "idle"
  /\ LET ts == ToISOString(clock)
         line == JsonStringify(SpreadWithTimestamp(data, ts))
     IN  IF fsOk
         THEN /\ registrations' = <<line>>
              /\ outbox' = Append(outbox, [id |-> i, msg |-> SubmissionEmail(data, clock)])
              /\ subs' = [subs EXCEPT ![i] =
                           [SubIdle EXCEPT !.pc = "awaiting_email", !.data = data,
                                           !.ts = ts, !.line = line, !.idx = 1,
                                           !.logged = <<"Registration saved to file">>]]
         ELSE /\ subs' = [subs EXCEPT ![i] =
                           [SubIdle EXCEPT !.pc = "done", !.data = data, !.ts = ts,
                                           !.appendFailed = TRUE, !.status = 500,
                                           !.resBody = "Could not submit registration",
                                           !.logged = <<"Error submitting registration:">>]]
              /\ UNCHANGED <<registrations, outbox>>
  /\ UNCHANGED <<cn, sicCodes, sic, hook, clock>>

\* lines 178-190: build the record, append it to registrations.json, then call
\* sendSubmissionEmail, which posts the message and awaits the answer; a failed
\* append goes straight to the catch block (lines 193-196)
SubmitRegistration(i, data, fsOk) ==
  /\ subs[i].pc = "idle"
  /\ LET ts == ToISOString(clock)
         line == JsonStringify(SpreadWithTimestamp(data, ts))
     IN  IF fsOk
         THEN /\ registrations' = Append(registrations, line)
              /\ outbox' = Append(outbox, [id |-> i, msg |-> SubmissionEmail(data, clock)])
              /\ subs' = [subs EXCEPT ![i] =
                           [SubIdle EXCEPT !.pc = "awaiting_email", !.data = data,
                                           !.ts = ts, !.line = line,
                                           !.idx = Len(registrations) + 1,
                                           !.logged = <<"Registration saved to file">>]]
         ELSE /\ subs' = [subs EXCEPT ![i] =
                           [SubIdle EXCEPT !.pc = "done", !.data = data, !.ts = ts,
                                           !.appendFailed = TRUE, !.status = 500,
                                           !.resBody = "Could not submit registration",
                                           !.logged = <<"Error submitting registration:">>]]
              /\ UNCHANGED <<registrations, outbox>>
  /\ UNCHANGED <<cn, sicCodes, sic, hook, clock>>

\* lines 149, 192: the email API accepted the message
EmailDelivered(i) ==
  /\ subs[i].pc = "awaiting_email"
  /\ subs' = [subs EXCEPT ![i] =
               [@ EXCEPT !.pc = "done", !.status = 200,
                         !.resBody = "Registration submitted successfully",
                         !.logged = Append(@, "Email sent successfully via Brevo API.")]]
  /\ UNCHANGED <<cn, sicCodes, sic, hook, registrations, clock, outbox>>

\* mutant: sendSubmissionEmail logs the failure and does not rethrow
EmailFailed_Swallowed(i) ==
  /\ subs[i].pc = "awaiting_email"
  /\ subs' = [subs EXCEPT ![i] =
               [@ EXCEPT !.pc = "done", !.emailFailed = TRUE, !.status = 200,
                         !.resBody = "Registration submitted successfully",
                         !.logged = Append(@, "Email sending error:")]]
  /\ UNCHANGED <<cn, sicCodes, sic, hook, registrations, clock, outbox>>

\* lines 150-153, 193-196: the email API call failed; sendSubmissionEmail logs
\* and rethrows, the handler's catch block answers 500
EmailFailed(i) ==
  /\ subs[i].pc = "awaiting_email"
  /\ subs' = [subs EXCEPT ![i] =
               [@ EXCEPT !.pc = "done", !.emailFailed = TRUE, !.status = 500,
                         !.resBody = "Could not submit registration",
                         !.logged = @ \o <<"Email sending error:",
                                           "Error submitting registration:">>]]
  /\ UNCHANGED <<cn, sicCodes, sic, hook, registrations, clock, outbox>>

\* the wall clock moves on between two readings, or does not
Tick ==
  /\ clock < ClockStart + MaxTicks
  /\ clock' = clock + 1
  /\ UNCHANGED <<cn, sicCodes, sic, hook, registrations, subs, outbox>>

NextReg ==
  \/ \E i \in SubIds, data \in Payloads, fsOk \in BOOLEAN : SubmitRegistration(i, data, fsOk)
  \/ \E i \in SubIds : EmailDelivered(i)
  \/ \E i \in SubIds : EmailFailed(i)
  \/ Tick

(* ---------------------------- specifications --------------------------- *)
\* the state after the module has been loaded and the server listens
Init ==
  /\ cn = CnIdle
  /\ sicCodes \in Catalogs
  /\ sic = SicIdle
  /\ hook = HookIdle
  /\ registrations = <<>>
  /\ clock = ClockStart
  /\ subs = [i \in SubIds |-> SubIdle]
  /\ outbox = <<>>

InitOne == Init /\ sicCodes = SubSeq(EntryPool, 1, 3)

Next == NextName \/ NextSic \/ NextHook \/ NextReg

SpecName == InitOne /\ [][NextName]_vars
SpecSic == Init /\ [][NextSic]_vars
SpecHook == InitOne /\ [][NextHook]_vars
SpecReg == InitOne /\ [][NextReg]_vars
Spec == InitOne /\ [][Next]_vars

(* ------------------------------- properties ---------------------------- *)
\* the name of a /check-name request that was answered 200
CnAnswered == cn.pc = "done" /\ cn.status = 200

\* C1: /check-name reports a collision exactly when some candidate's title,
\* normalized by trim + uppercase + whitespace collapse, equals the query
\* normalized the same way, bare or followed by " LIMITED" or " LTD".
C1_CollisionIffNormalizedMatch ==
  CnAnswered =>
    LET q == CollapseWhitespace(ToUpperCase(Trim(cn.req.companyName)))
    IN  (cn.available = FALSE) <=>
          \E i \in 1..Len(cn.items) :
            LET t == CollapseWhitespace(ToUpperCase(Trim(cn.items[i])))
            IN  t \in {q, q \o SuffixLimited, q \o SuffixLtd}

\* C2: in a successful /check-name response the suggestions are non-empty iff
\* available is false; they are then the received (untrimmed) name followed by
\* " UK", " Solutions", " Group", " Holdings", " Services", in that order;
\* and they are the empty list when available is true.
C2_SuggestionsShape ==
  CnAnswered =>
    LET n == cn.req.companyName
        sfx == << <<" ", "U", "K">>,
                  <<" ", "S", "o", "l", "u", "t", "i", "o", "n", "s">>,
                  <<" ", "G", "r", "o", "u", "p">>,
                  <<" ", "H", "o", "l", "d", "i", "n", "g", "s">>,
                  <<" ", "S", "e", "r", "v", "i", "c", "e", "s">> >>
    IN  /\ (cn.suggestions # <<>>) <=> (cn.available = FALSE)
        /\ cn.available = FALSE =>
             /\ Len(cn.suggestions) = 5
             /\ \A k \in 1..5 :
                  /\ Len(cn.suggestions[k]) = Len(n) + Len(sfx[k])
                  /\ SubSeq(cn.suggestions[k], 1, Len(n)) = n
                  /\ SubSeq(cn.suggestions[k], Len(n) + 1, Len(n) + Len(sfx[k])) = sfx[k]
        /\ cn.available = TRUE => cn.suggestions = <<>>

\* a collision was reported for a name with surrounding whitespace
C2_Witness ==
  /\ CnAnswered
  /\ cn.available = FALSE
  /\ Len(cn.req.companyName) > 1
  /\ cn.req.companyName[1] = " "
  /\ Len(cn.suggestions) = 5

\* C9: a /check-name request whose companyName is empty or absent is answered
\* 400 with an error body, and no registry call is made for it.
C9_MissingNameRejected ==
  (cn.pc # "idle" /\ (~cn.req.present \/ Len(cn.req.companyName) = 0)) =>
    /\ cn.pc = "done"
    /\ cn.status = 400
    /\ cn.error # ""
    /\ ~cn.called

\* a request with a present but empty name was refused
C9_Witness ==
  /\ cn.pc = "done"
  /\ cn.req.present
  /\ cn.req.companyName = <<>>
  /\ cn.status = 400

\* the positions of the catalog entries that match the query
SicHits(catalog, query) ==
  {i \in 1..Len(catalog) :
     \/ \E k \in 1..Len(catalog[i].code) :
          /\ k + Len(query) - 1 <= Len(catalog[i].code)
          /\ \A j \in 1..Len(query) : catalog[i].code[k + j - 1] = query[j]
     \/ \E k \in 1..Len(catalog[i].description) :
          /\ k + Len(query) - 1 <= Len(catalog[i].description)
          /\ \A j \in 1..Len(query) :
               LowerChar(catalog[i].description[k + j - 1]) = query[j]}

\* results lists the first (at most 15) hits, in catalog order
IsFirstHits(results, catalog, query) ==
  LET hits == SicHits(catalog, query)
      n == IF Cardinality(hits) < 15 THEN Cardinality(hits) ELSE 15
  IN  /\ Len(results) = n
      /\ \A k \in 1..n :
           \E i \in hits : /\ Cardinality({j \in hits : j <= i}) = k
                           /\ results[k] = catalog[i]

\* the case-folded query of the last search
SicFolded == IF sic.req.present THEN [i \in 1..Len(sic.req.q) |-> LowerChar(sic.req.q[i])] ELSE <<>>

\* C10 (as stated): the search returns the empty list when the trimmed,
\* case-folded query has fewer than 2 characters, and otherwise the first at
\* most 15 catalog entries, in catalog order, whose code or case-folded
\* description contains the case-folded query.
C10_TrimmedQueryTooShort ==
  sic.pc = "done" =>
    IF Len(Trim(SicFolded)) < 2
    THEN sic.results = <<>>
    ELSE IsFirstHits(sic.results, sicCodes, SicFolded)

\* C10 (amended): the same with the length test on the case-folded query as
\* received, not trimmed.
C10_SearchResults ==
  sic.pc = "done" =>
    IF Len(SicFolded) < 2
    THEN sic.results = <<>>
    ELSE IsFirstHits(sic.results, sicCodes, SicFolded)

\* a search that hit more than 15 entries, through the description only and
\* with a query written in upper case, was cut to 15
C10_Witness ==
  /\ sic.pc = "done"
  /\ sic.req.q = <<"A", "A">>
  /\ Len(sic.results) = 15
  /\ Cardinality(SicHits(sicCodes, SicFolded)) > 15

\* the last webhook request was answered and its signature did not verify
HookUnverified == hook.pc = "done" /\ hook.req.sig # "valid"

\* some line the request wrote to the operational log confirms a payment
HookLoggedPayment == \E k \in 1..Len(hook.logged) : hook.logged[k].tag = "Payment succeeded"

\* C3 (as stated): a webhook request whose signature does not verify is
\* answered 400 and nothing is processed: no payment confirmation, no log
\* entry, no state change, whatever the payload's type.
C3_RejectedWritesNothing ==
  HookUnverified =>
    /\ hook.status = 400
    /\ ~hook.verified
    /\ hook.logged = <<>>
    /\ registrations = <<>> /\ outbox = <<>>

\* C3 (amended): such a request is answered 400 and nothing is processed: no
\* payment confirmation is logged and no record or message is created; the
\* operational log receives at most one line, the failure diagnostic, and
\* exactly that line when the handler itself rejects the request.
C3_RejectedNotProcessed ==
  HookUnverified =>
    /\ hook.status = 400
    /\ ~hook.verified
    /\ ~HookLoggedPayment
    /\ Len(hook.logged) <= 1
    /\ hook.resBody = "Webhook Error" =>
         /\ Len(hook.logged) = 1
         /\ hook.logged[1].tag = "Webhook signature verification failed:"
    /\ registrations = <<>> /\ outbox = <<>>

\* a forged success event reached the handler and was rejected
C3_Witness ==
  /\ HookUnverified
  /\ hook.req.type = "payment_intent.succeeded"
  /\ hook.req.contentType = "application/json"
  /\ hook.req.parseable
  /\ hook.req.sig = "invalid"
  /\ hook.resBody = "Webhook Error"

\* C4: a webhook request with a signature valid for its raw body, having gone
\* through the middleware chain, is verified and answered {received: true}
\* whatever its type, and the settled amount is logged exactly when the type
\* is "payment_intent.succeeded".
C4_ValidSignatureAcknowledged ==
  (/\ hook.pc = "done"
   /\ hook.req.sig = "valid"
   /\ hook.req.contentType = "application/json"
   /\ hook.req.parseable) =>
    /\ hook.verified
    /\ hook.status = 200
    /\ hook.resBody = "received"
    /\ HookLoggedPayment <=> hook.req.type = "payment_intent.succeeded"

\* the requests that have built their record
SubsStarted == {i \in SubIds : subs[i].pc # "idle"}
SubsAppended == {i \in SubIds : subs[i].idx > 0}
OutboxIds == {outbox[k].id : k \in 1..Len(outbox)}

\* the record of request i is in the log, as written
RecordKept(i) ==
  /\ subs[i].idx \in 1..Len(registrations)
  /\ registrations[subs[i].idx] = subs[i].line

\* C5: notification dispatch is attempted only after the record has been
\* appended; if the append fails, dispatch is never attempted and the caller
\* receives a failure response.
C5_DispatchAfterAppend ==
  /\ \A i \in OutboxIds : RecordKept(i)
  /\ \A i \in SubIds :
       subs[i].appendFailed =>
         /\ i \notin OutboxIds
         /\ subs[i].pc = "done"
         /\ subs[i].status = 500

\* one request failed to append while another one appended and dispatched
C5_Witness ==
  /\ \E i \in SubIds : subs[i].appendFailed
  /\ \E j \in SubIds : j \in OutboxIds /\ subs[j].idx = 1
  /\ Len(outbox) = 1

\* C6: when the email dispatch fails the caller receives status 500 and the
\* record appended for the request remains in the log unchanged.
C6_EmailFailureKeepsRecord ==
  \A i \in SubIds :
    subs[i].emailFailed =>
      /\ subs[i].pc = "done"
      /\ subs[i].status = 500
      /\ RecordKept(i)

\* a dispatch failed, and a later request appended after it
C6_Witness ==
  \E i \in SubIds :
    /\ subs[i].emailFailed
    /\ subs[i].idx = 1
    /\ Len(registrations) > 1

\* the fields of a log line, as a set of <<name, value>> pairs
LineFields(line) == {line[k] : k \in 1..Len(line)}

\* the summary dispatched for request i names the submitted company
SummaryNamesCompany(i) ==
  \A k \in 1..Len(subs[i].data) :
    subs[i].data[k].k = "companyName" =>
      \E m \in 1..Len(outbox) :
        /\ outbox[m].id = i
        /\ outbox[m].msg.companyName = subs[i].data[k].v.str
        /\ outbox[m].msg.subject[2] = subs[i].data[k].v.str

\* C7 (as stated): the appended line contains every submitted field with its
\* submitted value plus a server-generated ISO-8601 timestamp, and the
\* summary contains the company name, also when the payload carries a field
\* named timestamp.
C7_AllSubmittedFieldsKept ==
  \A i \in SubsAppended :
    /\ \A k \in 1..Len(subs[i].data) :
         <<subs[i].data[k].k, subs[i].data[k].v>> \in LineFields(registrations[subs[i].idx])
    /\ \E f \in LineFields(registrations[subs[i].idx]) :
         f[1] = "timestamp" /\ f[2].str = "ISO-8601"
    /\ SummaryNamesCompany(i)

\* C7 (amended): the appended line contains every submitted field other than
\* timestamp with its submitted value, and exactly one timestamp field, whose
\* value is the ISO-8601 form of a reading of the server clock (a submitted
\* timestamp is replaced); the summary contains the company name.
C7_FieldsKeptTimestampReplaced ==
  \A i \in SubsAppended :
    LET fields == LineFields(registrations[subs[i].idx])
    IN  /\ \A k \in 1..Len(subs[i].data) :
             subs[i].data[k].k # "timestamp" =>
               <<subs[i].data[k].k, subs[i].data[k].v>> \in fields
        /\ Cardinality({f \in fields : f[1] = "timestamp"}) = 1
        /\ \A f \in fields :
             f[1] = "timestamp" =>
               /\ f[2].str = "ISO-8601"
               /\ f[2].ms \in 0..999
               /\ (f[2].sec * 1000 + f[2].ms) \in ClockStart..clock
        /\ Cardinality(fields) = Len(registrations[subs[i].idx])
        /\ SummaryNamesCompany(i)

\* a payload carrying its own timestamp was recorded with the server's
C7_Witness ==
  \E i \in SubsAppended :
    /\ \E k \in 1..Len(subs[i].data) :
         subs[i].data[k].k = "timestamp" /\ subs[i].data[k].v.str = "yesterday"
    /\ \E k \in 1..Len(subs[i].data) : subs[i].data[k].k = "companyName"

\* two different requests that appended the same payload
SamePayloadPairs ==
  {p \in SubsAppended \X SubsAppended : p[1] # p[2] /\ subs[p[1]].data = subs[p[2]].data}

\* C8 (as stated): two calls with identical payloads each append their own
\* line without changing earlier lines, and the two lines are distinct
\* because their timestamps differ.
C8_IdenticalPayloadsDistinctLines ==
  \A p \in SamePayloadPairs :
    /\ subs[p[1]].idx # subs[p[2]].idx
    /\ RecordKept(p[1]) /\ RecordKept(p[2])
    /\ registrations[subs[p[1]].idx] # registrations[subs[p[2]].idx]

\* C8 (amended): two calls with identical payloads whose appends succeed each
\* append their own line without changing earlier lines (no dedup); the two
\* lines are distinct exactly when the two readings of the server clock
\* differ, and identical when both calls fall in the same millisecond.
C8_IdenticalPayloadsOwnLines ==
  /\ Len(registrations) = Cardinality(SubsAppended)
  /\ \A i \in SubsAppended : RecordKept(i)
  /\ \A p \in SamePayloadPairs :
       /\ subs[p[1]].idx # subs[p[2]].idx
       /\ (registrations[subs[p[1]].idx] # registrations[subs[p[2]].idx])
            <=> (subs[p[1]].ts # subs[p[2]].ts)

\* two identical payloads were appended within the same millisecond
C8_Witness ==
  \E p \in SamePayloadPairs :
    /\ subs[p[1]].ts = subs[p[2]].ts
    /\ Len(subs[p[1]].data) > 0
    /\ Len(registrations) = 2

====
